---------------------------- MODULE Spec2Model ----------------------------
(***************************************************************************)
(* gedcom-to-csv: the tree-to-relational flattening engine.                *)
(*                                                                         *)
(* Two script bodies exist: convertGedcom.js (the earlier one: PARENTS is  *)
(* always built, only TITL is promoted, no integration of promoted-value   *)
(* tables) and the later script (options -p and -n, more promoted tags,    *)
(* generated-id prefix, integration pass).  `version` selects the script.  *)
(*                                                                         *)
(* JavaScript values are strings here; null and undefined are the two      *)
(* reserved strings NULL and UNDEFINED.  A JS object (a row, the table     *)
(* registry) is a function from property names to values.                  *)
(***************************************************************************)
EXTENDS Integers, Sequences, FiniteSets, TLC

VARIABLES version, args, allRecords, baseTableNames, tables,
          promotedValueTables, pc, recIdx, childIdx, record, trace, csvFiles

vars == <<version, args, allRecords, baseTableNames, tables,
          promotedValueTables, pc, recIdx, childIdx, record, trace, csvFiles>>

NULL == "<null>"
UNDEFINED == "<undefined>"

V1 == "convertGedcom.js"
V2 == "part_000"

\* Largest number of top-level records of an input document.
MaxRecords == 3

---------------------------------------------------------------------------
(* JS objects *)

EmptyObject == [k \in {} |-> NULL]

\* obj[key] = value
SetProp(obj, key, value) ==
  [k \in DOMAIN obj \cup {key} |-> IF k = key THEN value ELSE obj[k]]

\* obj[key], for an object literal without inherited names in play
GetProp(obj, key) == IF key \in DOMAIN obj THEN obj[key] ELSE UNDEFINED

\* The names every plain object inherits from Object.prototype: rows[x] is
\* truthy for them although rows has no own property x.
ObjectPrototypeKeys ==
  {"constructor", "toString", "toLocaleString", "valueOf", "hasOwnProperty",
   "isPrototypeOf", "propertyIsEnumerable", "__proto__"}

\* A value used as a property name is converted to a string.
PropertyKey(value) ==
  IF value = NULL THEN "null"
  ELSE IF value = UNDEFINED THEN "undefined"
  ELSE value

\* if (x) for a string-or-null-or-undefined x
Truthy(value) == value \notin {NULL, UNDEFINED, ""}

---------------------------------------------------------------------------
(* Input: the nodes the parser yields *)

Node(tag, pointer, value, children) ==
  [tag |-> tag, pointer |-> pointer, value |-> value, children |-> children]

Leaf(tag, value) == Node(tag, NULL, value, <<>>)

Records ==
  { Node("HEAD", NULL, NULL,
         <<Node("SOUR", NULL, "app", <<Leaf("VERS", "1")>>),
           Leaf("DATE", "4 JUL 1776"), Leaf("DATE", "Abt. 1780 - 1790"),
           Leaf("DATE", "unknown")>>),
    Node("INDI", "@I1@", NULL,
         <<Leaf("NAME", "a"), Leaf("NAME", "b"), Leaf("NAME", "c")>>),
    Node("INDI", "@I1@", NULL,
         <<Leaf("NAME", "a"), Leaf("TITL", "Dr"), Leaf("OCCU", "constructor"),
           Node("RESI", NULL, "x", <<Leaf("DATE", "unknown")>>)>>),
    Node("INDI", "@I2@", NULL,
         <<Leaf("TITL", "Dr"), Leaf("TITL", "Mr"), Leaf("TITL", "Dr"),
           Node("DEAT", NULL, NULL, <<Leaf("DATE", "4 JUL 1776")>>)>>),
    Node("INDI", "@I2@", NULL,
         <<Leaf("TITL", "Dr"), Leaf("FAMC", "@F1@"), Leaf("NOTE", NULL),
           Node("RESI", NULL, NULL,
                <<Node("RESI", NULL, "y", <<Leaf("PLAC", "p")>>)>>)>>),
    Node("FAM", "@F1@", NULL,
         <<Leaf("HUSB", "@I1@"), Leaf("CHIL", "@I2@")>>),
    Node("FAM", "@F2@", NULL,
         <<Leaf("WIFE", "@I2@"), Leaf("HUSB", "@I1@"), Leaf("CHIL", "@I1@")>>),
    \* a multimedia record chained to its continuation
    Node("OBJE", "@O1@", NULL,
         <<Leaf("FORM", "jpeg"), Leaf("OBJE", "@O2@")>>),
    \* a source whose long title is continued on a CONC line
    Node("SOUR", "@S1@", NULL,
         <<Node("TITL", NULL, "t", <<Leaf("CONC", "u")>>)>>),
    \* a top-level record type whose tag is also a promoted tag of INDI
    Node("TITL", "@T1@", "Dr", <<>>) }

\* A pointer, when present, is unique within the source file.
UniquePointers(doc) ==
  \A i, j \in DOMAIN doc :
     (i # j /\ doc[i].pointer # NULL) => doc[i].pointer # doc[j].pointer

Documents ==
  { doc \in UNION { [1..n -> Records] : n \in 0..MaxRecords } :
      UniquePointers(doc) }

---------------------------------------------------------------------------
(* Static configuration *)

\* Mutation: the CHIL link resolved to the family table
LINK_ATTRIBUTES_childToFam ==
  SetProp(SetProp(SetProp(EmptyObject, "CHIL", "FAM"), "FAMC", "FAM"),
          "FAMS", "FAM")

LINK_ATTRIBUTES ==
  SetProp(SetProp(SetProp(EmptyObject, "CHIL", "INDI"), "FAMC", "FAM"),
          "FAMS", "FAM")

promotedValues == SetProp(EmptyObject, "INDI", {"TITL"})

PROMOTED_VALUES ==
  SetProp(EmptyObject, "INDI",
          {"TITL", "RELI", "_EMPLOY", "BLES", "_DCAUSE", "DEAT", "OCCU",
           "EDUC", "_MDCL"})

PromotedTags(tag) ==
  LET cfg == IF version = V1 THEN promotedValues ELSE PROMOTED_VALUES
  IN  IF tag \in DOMAIN cfg THEN cfg[tag] ELSE {}

\* The earlier script always builds PARENTS; the later one on -p.
ParentsEnabled == version = V1 \/ args.parents_table

EXTRA_TABLES ==
  IF ParentsEnabled
    THEN SetProp(EmptyObject, "PARENTS",
                 [rows |-> <<>>, columns |-> {"child", "parent"}])
    ELSE EmptyObject

---------------------------------------------------------------------------
(* Value Formatter *)

\* new Date(value) is a valid date (toISOString does not throw).  UTC is
\* taken as the local time zone.
DateValid(value) == value \in {NULL, "4 JUL 1776", " 1780 ", " 1790"}

\* Number(new Date(value)), in days since the epoch
DateDays(value) ==
  CASE value = NULL -> 0
    [] value = "4 JUL 1776" -> -70672
    [] value = " 1780 " -> -69396
    [] value = " 1790" -> -65743

\* new Date(days).toISOString().split('T')[0]
ISODate(days) ==
  CASE days = 0 -> "1970-01-01"
    [] days = -70672 -> "1776-07-04"
    [] days = -69396 -> "1780-01-01"
    [] days = -65743 -> "1790-01-01"
    [] days = -67570 -> "1784-12-31"

\* value.split(FORCE_DATE_REGEX) for the delimiters "abt." and "-"
SplitOnDelimiters(value) ==
  IF value = "Abt. 1780 - 1790" THEN <<"", " 1780 ", " 1790">> ELSE <<value>>

RECURSIVE SumDays(_)
SumDays(fragments) ==
  IF fragments = <<>> THEN 0
  ELSE DateDays(Head(fragments)) + SumDays(Tail(fragments))

formatValue(tag, value) ==
  IF tag = "DATE"
    THEN IF DateValid(value)
           THEN ISODate(DateDays(value))
           ELSE IF args.force_date_parsing
                  THEN LET numbers ==
                             SelectSeq(SplitOnDelimiters(value), DateValid)
                       IN  IF Len(numbers) > 0
                             THEN ISODate(SumDays(numbers) \div Len(numbers))
                             ELSE UNDEFINED
                  ELSE value
    ELSE value

---------------------------------------------------------------------------
(* Table Registry and Promotion Engine.  st = [tables, promotedValueTables, *)
(* trace] is the state the closures share; each operator returns st as it   *)
(* leaves it.                                                               *)

\* Mutation: a new junction table declared with its source column only
addJunctionRow_1col(st, sourceTable, sourceId, targetTable, targetId) ==
  LET junctionTable == sourceTable \o "_" \o targetTable
      t1 == IF junctionTable \in DOMAIN st.tables
              THEN st.tables
              ELSE SetProp(st.tables, junctionTable,
                           [rows |-> <<>>, columns |-> {sourceTable}])
      row == SetProp(SetProp(EmptyObject, sourceTable, sourceId),
                     targetTable, targetId)
  IN  [st EXCEPT !.tables =
         [t1 EXCEPT ![junctionTable].rows = Append(@, row)]]

addJunctionRow(st, sourceTable, sourceId, targetTable, targetId) ==
  LET junctionTable == sourceTable \o "_" \o targetTable
      t1 == IF junctionTable \in DOMAIN st.tables
              THEN st.tables
              ELSE SetProp(st.tables, junctionTable,
                           [rows |-> <<>>,
                            columns |-> {sourceTable, targetTable}])
      row == SetProp(SetProp(EmptyObject, sourceTable, sourceId),
                     targetTable, targetId)
  IN  [st EXCEPT !.tables =
         [t1 EXCEPT ![junctionTable].rows = Append(@, row)]]

\* Own property names of a promoted-value table's rows object, which is
\* kept as the sequence of its entries in insertion order.
OwnKeys(rows) == { rows[i].key : i \in DOMAIN rows }

generatedPrefix == IF version = V1 THEN "@" ELSE "@gedcom-to-csv_generated_"

addPromotedValue(st, sourceTable, sourceId, targetTable, targetValue) ==
  LET p1 == IF targetTable \in DOMAIN st.promotedValueTables
              THEN st.promotedValueTables
              ELSE SetProp(st.promotedValueTables, targetTable,
                           [rows |-> <<>>, columns |-> <<"id", targetTable>>])
      rows == p1[targetTable].rows
      key == PropertyKey(targetValue)
      \* rows[targetValue] is truthy: an own row, or an inherited member
      found == key \in OwnKeys(rows) \/ key \in ObjectPrototypeKeys
      id == generatedPrefix \o targetTable \o ToString(Len(rows)) \o "@"
      rows2 == IF found THEN rows
               ELSE Append(rows,
                      [key |-> key,
                       row |-> SetProp(SetProp(EmptyObject, "id", id),
                                       targetTable, targetValue)])
      \* rows[targetValue].id
      targetId ==
        IF key \in OwnKeys(rows2)
          THEN rows2[CHOOSE i \in DOMAIN rows2 : rows2[i].key = key].row.id
          ELSE UNDEFINED
  IN  addJunctionRow(
        [st EXCEPT !.promotedValueTables =
           [p1 EXCEPT ![targetTable].rows = rows2]],
        sourceTable, sourceId, targetTable, targetId)

RECURSIVE freeColumn(_, _, _, _)
\* while (record[column] !== undefined) { column = tag + dupIndex; dupIndex += 1 }
freeColumn(row, tag, column, dupIndex) ==
  IF GetProp(row, column) # UNDEFINED
    THEN freeColumn(row, tag, tag \o ToString(dupIndex), dupIndex + 1)
    ELSE column

Logged(st, path, tag, childRecord, rule) ==
  [st EXCEPT !.trace =
     Append(@, [path |-> path, table |-> tag, child |-> childRecord.tag,
                rule |-> rule])]

RECURSIVE parseChild(_, _, _, _, _, _)
RECURSIVE parsePromotedRecord(_, _, _, _, _)
RECURSIVE parseChildren(_, _, _, _, _, _, _)

\* children.forEach(childRecord => parseChild(tag, pointer, row, childRecord)),
\* from the i-th child on
parseChildren(st, row, tag, pointer, children, i, path) ==
  IF i > Len(children) THEN [st |-> st, record |-> row]
  ELSE LET r == parseChild(st, row, tag, pointer, children[i],
                           Append(path, i))
       IN  parseChildren(r.st, r.record, tag, pointer, children, i + 1, path)

parsePromotedRecord(st, sourceTable, sourceId, promotedRecord, path) ==
  LET tag == promotedRecord.tag
      t1 == IF tag \in DOMAIN st.tables THEN st.tables
            ELSE SetProp(st.tables, tag,
                         [rows |-> <<>>, columns |-> {"id", tag}])
      id == IF Truthy(promotedRecord.pointer)
              THEN promotedRecord.pointer
              ELSE "@" \o tag \o ToString(Len(t1[tag].rows)) \o "@"
      st1 == addJunctionRow([st EXCEPT !.tables = t1],
                            sourceTable, sourceId, tag, id)
      row == SetProp(SetProp(EmptyObject, "id", id), tag,
                     formatValue(tag, promotedRecord.value))
      r == parseChildren(st1, row, tag, id, promotedRecord.children, 1, path)
  IN  [r.st EXCEPT !.tables[tag].rows = Append(@, r.record)]

\* Returns [st, record]: the shared state and the row being built.
parseChild(st, row, tag, pointer, childRecord, path) ==
  IF childRecord.tag \in DOMAIN LINK_ATTRIBUTES
    THEN [st |-> addJunctionRow(Logged(st, path, tag, childRecord, "link"),
                                tag, pointer,
                                LINK_ATTRIBUTES[childRecord.tag],
                                childRecord.value),
          record |-> row]
  ELSE IF childRecord.tag \in baseTableNames
    THEN [st |-> addJunctionRow(Logged(st, path, tag, childRecord, "sibling"),
                                tag, pointer, childRecord.tag,
                                childRecord.value),
          record |-> row]
  ELSE IF childRecord.tag \in PromotedTags(tag)
    THEN [st |-> addPromotedValue(
                   Logged(st, path, tag, childRecord, "promotedValue"),
                   tag, pointer, childRecord.tag, childRecord.value),
          record |-> row]
  ELSE IF Len(childRecord.children) > 0
    THEN [st |-> parsePromotedRecord(
                   Logged(st, path, tag, childRecord, "promotedRecord"),
                   tag, pointer, childRecord, path),
          record |-> row]
  ELSE IF childRecord.value = NULL
    THEN [st |-> Logged(st, path, tag, childRecord, "null"), record |-> row]
  ELSE LET column == freeColumn(row, childRecord.tag, childRecord.tag, 2)
           st1 == Logged(st, path, tag, childRecord, "column")
       IN  [st |-> [st1 EXCEPT !.tables[tag].columns = @ \cup {column}],
            record |-> SetProp(row, column,
                               formatValue(childRecord.tag,
                                           childRecord.value))]

---------------------------------------------------------------------------
(* Extra Table Plugins *)

RECURSIVE parentsRows(_, _, _)
\* The PARENTS parser: for a FAM node, one row per CHIL child and resolved
\* spouse column of the finished row, WIFE before HUSB.
parentsRows(row, children, i) ==
  IF i > Len(children) THEN <<>>
  ELSE LET childRecord == children[i]
           pair(parent) ==
             SetProp(SetProp(EmptyObject, "child", childRecord.value),
                     "parent", parent)
           wife == IF Truthy(GetProp(row, "WIFE"))
                     THEN <<pair(row["WIFE"])>> ELSE <<>>
           husb == IF Truthy(GetProp(row, "HUSB"))
                     THEN <<pair(row["HUSB"])>> ELSE <<>>
       IN  (IF childRecord.tag = "CHIL" THEN wife \o husb ELSE <<>>)
             \o parentsRows(row, children, i + 1)

EXTRA_TABLE_PARSERS(row, tag, pointer, children) ==
  IF ParentsEnabled /\ tag = "FAM" THEN parentsRows(row, children, 1) ELSE <<>>

---------------------------------------------------------------------------
(* The run *)

\* Mutation: the table namespace collected from the pointers
baseTableNamesOf_pointers(records) ==
  { records[i].pointer : i \in DOMAIN records }

baseTableNamesOf(records) == { records[i].tag : i \in DOMAIN records }

Configurations ==
  { a \in [copy_individual_names : BOOLEAN, parents_table : BOOLEAN,
           force_date_parsing : BOOLEAN] : TRUE }

Init ==
  /\ version \in {V1, V2}
  /\ args \in Configurations
  \* the earlier script has neither -n nor -p
  /\ version = V1 => ~args.copy_individual_names /\ ~args.parents_table
  /\ allRecords \in Documents
  /\ baseTableNames = baseTableNamesOf(allRecords)
  /\ tables = EXTRA_TABLES
  /\ promotedValueTables = EmptyObject
  /\ pc = "records"
  /\ recIdx = 1
  /\ childIdx = 0
  /\ record = EmptyObject
  /\ trace = <<>>
  /\ csvFiles = EmptyObject

gedcomRecord == allRecords[recIdx]

\* allRecords.forEach callback, up to the loop over the children
BeginRecord ==
  /\ pc = "records" /\ recIdx <= Len(allRecords) /\ childIdx = 0
  /\ tables' = IF gedcomRecord.tag \in DOMAIN tables THEN tables
               ELSE SetProp(tables, gedcomRecord.tag,
                            [rows |-> <<>>, columns |-> {"id"}])
  /\ record' = SetProp(EmptyObject, "id", gedcomRecord.pointer)
  /\ childIdx' = 1
  /\ UNCHANGED <<version, args, allRecords, baseTableNames,
                 promotedValueTables, pc, recIdx, trace, csvFiles>>

\* children.forEach callback of a top-level node
ParseTopChild ==
  /\ pc = "records" /\ recIdx <= Len(allRecords)
  /\ childIdx \in 1..Len(gedcomRecord.children)
  /\ LET childRecord == gedcomRecord.children[childIdx]
         r == parseChild([tables |-> tables,
                          promotedValueTables |-> promotedValueTables,
                          trace |-> trace],
                         record, gedcomRecord.tag, gedcomRecord.pointer,
                         childRecord, <<recIdx, childIdx>>)
         copy == /\ version = V2
                 /\ args.copy_individual_names
                 /\ gedcomRecord.tag = "INDI"
                 /\ childRecord.tag = "NAME"
     IN  /\ tables' = IF copy
                        THEN [r.st.tables EXCEPT
                                !["INDI"].columns = @ \cup {"NAME"}]
                        ELSE r.st.tables
         /\ record' = IF copy
                        THEN SetProp(r.record, "NAME", childRecord.value)
                        ELSE r.record
         /\ promotedValueTables' = r.st.promotedValueTables
         /\ trace' = r.st.trace
  /\ childIdx' = childIdx + 1
  /\ UNCHANGED <<version, args, allRecords, baseTableNames, pc, recIdx,
                 csvFiles>>

\* allRecords.forEach callback, after the loop over the children
EndRecord ==
  /\ pc = "records" /\ recIdx <= Len(allRecords)
  /\ childIdx = Len(gedcomRecord.children) + 1
  /\ LET t1 == [tables EXCEPT ![gedcomRecord.tag].rows = Append(@, record)]
         extra == EXTRA_TABLE_PARSERS(record, gedcomRecord.tag,
                                      gedcomRecord.pointer,
                                      gedcomRecord.children)
     IN  tables' = IF ParentsEnabled
                     THEN [t1 EXCEPT !["PARENTS"].rows = @ \o extra]
                     ELSE t1
  /\ record' = EmptyObject
  /\ recIdx' = recIdx + 1
  /\ childIdx' = 0
  /\ UNCHANGED <<version, args, allRecords, baseTableNames,
                 promotedValueTables, pc, trace, csvFiles>>

RowsOf(rows) == [i \in DOMAIN rows |-> rows[i].row]

SeqToSet(s) == { s[i] : i \in DOMAIN s }

\* Set.prototype.add takes one argument: add(...columns) adds the first.
AddSpread(set, columns) == set \cup {Head(columns)}

\* Integration pass of the later script
Integrate ==
  /\ version = V2 /\ pc = "records" /\ recIdx > Len(allRecords)
  /\ tables' =
       [table \in DOMAIN tables \cup DOMAIN promotedValueTables |->
          IF table \notin DOMAIN promotedValueTables THEN tables[table]
          ELSE LET pv == promotedValueTables[table]
               IN  IF table \in DOMAIN tables
                     THEN [rows |-> tables[table].rows \o RowsOf(pv.rows),
                           columns |->
                             AddSpread(tables[table].columns, pv.columns)]
                     ELSE [rows |-> RowsOf(pv.rows),
                           columns |-> SeqToSet(pv.columns)]]
  /\ pc' = "write"
  /\ UNCHANGED <<version, args, allRecords, baseTableNames,
                 promotedValueTables, recIdx, childIdx, record, trace,
                 csvFiles>>

\* The earlier script goes from the records straight to the output.
ReadyToWrite ==
  \/ pc = "write"
  \/ version = V1 /\ pc = "records" /\ recIdx > Len(allRecords)

\* Papa.unparse(rows, {columns}): one field per listed column, empty for a
\* missing, null or undefined value; keys outside the list are dropped.
unparse(rows, columns) ==
  [i \in DOMAIN rows |->
     [c \in columns |->
        IF Truthy(GetProp(rows[i], c)) THEN rows[i][c] ELSE ""]]

\* if (args.csv): one file per table
WriteTables ==
  /\ ReadyToWrite
  /\ csvFiles' = [table \in DOMAIN tables |->
                    unparse(tables[table].rows, tables[table].columns)]
  /\ pc' = "done"
  /\ UNCHANGED <<version, args, allRecords, baseTableNames, tables,
                 promotedValueTables, recIdx, childIdx, record, trace>>

\* args.csv not given: nothing is written
SkipWrite ==
  /\ ReadyToWrite
  /\ pc' = "done"
  /\ UNCHANGED <<version, args, allRecords, baseTableNames, tables,
                 promotedValueTables, recIdx, childIdx, record, trace,
                 csvFiles>>

Next ==
  \/ BeginRecord
  \/ ParseTopChild
  \/ EndRecord
  \/ Integrate
  \/ WriteTables
  \/ SkipWrite

Spec == Init /\ [][Next]_vars

---------------------------------------------------------------------------
(* Vocabulary of the properties *)

RECURSIVE Descend(_, _)
Descend(node, path) ==
  IF path = <<>> THEN node
  ELSE Descend(node.children[Head(path)], Tail(path))

\* The input node a trace entry is about
NodeAt(path) == Descend(allRecords[path[1]], Tail(path))

\* Top-level records whose row has been appended
Finished == { i \in DOMAIN allRecords : i < recIdx }

\* The row appended for the i-th top-level record: top-level rows are the
\* first rows of their table, in document order.
RowOf(i) ==
  LET tag == allRecords[i].tag
      k == Cardinality({ j \in 1..i : allRecords[j].tag = tag })
  IN  tables[tag].rows[k]

TopLevelTags == { allRecords[i].tag : i \in DOMAIN allRecords }

ConfiguredPromotion(table) ==
  IF table # "INDI" THEN {}
  ELSE IF version = V1 THEN promotedValues["INDI"]
  ELSE PROMOTED_VALUES["INDI"]

\* The priority chain of the six rules, stated on the input alone
FirstRule(table, node) ==
  LET holds == <<node.tag \in {"CHIL", "FAMC", "FAMS"},
                 node.tag \in TopLevelTags,
                 node.tag \in ConfiguredPromotion(table),
                 node.children # <<>>,
                 node.value = NULL,
                 TRUE>>
      names == <<"link", "sibling", "promotedValue", "promotedRecord",
                 "null", "column">>
      first == CHOOSE i \in 1..6 : holds[i] /\ \A j \in 1..(i - 1) : ~holds[j]
  IN  names[first]

RECURSIVE PassedUnder(_, _, _)
\* The paths of the nodes handed to the Promotion Engine below `node`
PassedUnder(table, node, path) ==
  {path} \cup
    IF FirstRule(table, node) = "promotedRecord"
      THEN UNION { PassedUnder(node.tag, node.children[i], Append(path, i)) :
                     i \in DOMAIN node.children }
      ELSE {}

\* Every node handed to the Promotion Engine so far
Passed ==
  UNION { UNION { PassedUnder(allRecords[r].tag, allRecords[r].children[c],
                              <<r, c>>) :
                    c \in { y \in 1..Len(allRecords[r].children) :
                              r < recIdx \/ y < childIdx } } :
            r \in { x \in DOMAIN allRecords : x <= recIdx } }

EmitsJunction(e) ==
  e.rule \in {"link", "sibling", "promotedValue", "promotedRecord"}

\* The target table of the junction row a trace entry emitted
TargetTable(e) ==
  IF e.rule = "link" THEN LINK_ATTRIBUTES[e.child] ELSE e.child

JunctionName(e) == e.table \o "_" \o TargetTable(e)

\* The trace entries that wrote to the junction table jt, in order:
\* entry k wrote row k.
Emitters(jt) == SelectSeq(trace, LAMBDA e : EmitsJunction(e) /\ JunctionName(e) = jt)

---------------------------------------------------------------------------
(* C1 -- Promoted-value deduplication: for every promoted tag T and raw    *)
(* value v handled by the promoted-value rule, table T holds exactly one   *)
(* row whose value is v, every junction row emitted for such a child       *)
(* carries that row's id as target id, and two different raw values of T   *)
(* never share an id.                                                      *)
PromotedValueDedup ==
  \A k \in DOMAIN trace :
    trace[k].rule = "promotedValue" =>
      LET e == trace[k]
          T == e.child
          v == NodeAt(e.path).value
          rows == IF T \in DOMAIN promotedValueTables
                    THEN promotedValueTables[T].rows ELSE <<>>
          holding == { i \in DOMAIN rows : rows[i].row[T] = v }
          jt == JunctionName(e)
          nth == Cardinality({ j \in 1..k : EmitsJunction(trace[j])
                                 /\ JunctionName(trace[j]) = jt })
      IN  /\ Cardinality(holding) = 1
          /\ \A i \in holding :
               /\ jt \in DOMAIN tables
               /\ nth <= Len(tables[jt].rows)
               /\ GetProp(tables[jt].rows[nth], T) = rows[i].row.id
          /\ \A i, j \in DOMAIN rows :
               rows[i].row[T] # rows[j].row[T] => rows[i].row.id # rows[j].row.id

---------------------------------------------------------------------------
ThreePlainLeaves(node) ==
  /\ Len(node.children) = 3
  /\ \A i \in 1..3 :
       /\ node.children[i].tag = node.children[1].tag
       /\ node.children[i].children = <<>>
       /\ node.children[i].value # NULL
       /\ FirstRule(node.tag, node.children[i]) = "column"

(* C2 -- Column-collision determinism: a top-level node whose three        *)
(* children are leaves all tagged X, X handled by the plain-column rule,   *)
(* with non-null values a, b, c, gets a row with X=a, X2=b, X3=c, under    *)
(* every configuration.                                                    *)
ColumnCollision ==
  \A i \in Finished :
    ThreePlainLeaves(allRecords[i]) =>
      LET c == allRecords[i].children
          X == c[1].tag
          row == RowOf(i)
      IN  /\ GetProp(row, X) = c[1].value
          /\ GetProp(row, X \o "2") = c[2].value
          /\ GetProp(row, X \o "3") = c[3].value

---------------------------------------------------------------------------
(* C3 -- Rule dispatch: every child handed to the Promotion Engine is      *)
(* handled by exactly one rule, the first of link, sibling-table,          *)
(* promoted-value, promoted-record, null-value, plain-column whose         *)
(* condition holds; a tag that is both top-level and configured for        *)
(* promotion goes to the sibling-table rule and creates no promoted-value  *)
(* row.                                                                    *)
RuleDispatch ==
  /\ \A k \in DOMAIN trace :
       trace[k].rule = FirstRule(trace[k].table, NodeAt(trace[k].path))
  /\ { trace[k].path : k \in DOMAIN trace } = Passed
  /\ Len(trace) = Cardinality(Passed)
  /\ \A T \in TopLevelTags : T \notin DOMAIN promotedValueTables
  /\ \A jt \in { JunctionName(trace[k]) :
                   k \in { x \in DOMAIN trace : EmitsJunction(trace[x]) } } :
       jt \in DOMAIN tables /\ Len(tables[jt].rows) = Len(Emitters(jt))

\* C3 -- all six rules have fired, one of them the sibling-table rule on a tag
\* that is also configured for promotion under the current table.
RuleDispatchWitness ==
  /\ { trace[k].rule : k \in DOMAIN trace } =
       {"link", "sibling", "promotedValue", "promotedRecord", "null", "column"}
  /\ \E k \in DOMAIN trace :
       /\ trace[k].rule = "sibling"
       /\ trace[k].child \in PromotedTags(trace[k].table)

---------------------------------------------------------------------------
(* C4 -- Junction rows: every edge emitted from a row of S with id sid to  *)
(* target id tid appends one row to the table S_T, holding the two columns *)
(* S = sid and T = tid.  Stated for the edges whose ends the input names:  *)
(* a link or sibling-table child of a top-level node.                      *)
JunctionRowsKeepBothEnds ==
  \A k \in DOMAIN trace :
    (trace[k].rule \in {"link", "sibling"} /\ Len(trace[k].path) = 2) =>
      LET e == trace[k]
          S == e.table
          T == TargetTable(e)
          jt == S \o "_" \o T
          nth == Cardinality({ j \in 1..k : EmitsJunction(trace[j])
                                 /\ JunctionName(trace[j]) = jt })
      IN  /\ jt \in DOMAIN tables
          /\ nth <= Len(tables[jt].rows)
          /\ Cardinality(DOMAIN tables[jt].rows[nth]) = 2
          /\ Cardinality(tables[jt].columns) = 2
          /\ GetProp(tables[jt].rows[nth], S) = allRecords[e.path[1]].pointer
          /\ GetProp(tables[jt].rows[nth], T) = NodeAt(e.path).value

---------------------------------------------------------------------------
(* C5 -- Top-level row identity: the id of the row appended for a          *)
(* top-level node is its pointer when it has one, and otherwise a          *)
(* synthesized, non-empty id, different for two pointer-less nodes of one  *)
(* tag.                                                                    *)
TopLevelRowIdentity ==
  /\ \A i \in Finished :
       IF allRecords[i].pointer # NULL
         THEN RowOf(i).id = allRecords[i].pointer
         ELSE Truthy(RowOf(i).id)
  /\ \A i, j \in Finished :
       (i # j /\ allRecords[i].tag = allRecords[j].tag) =>
         RowOf(i).id # RowOf(j).id

---------------------------------------------------------------------------
---------------------------------------------------------------------------
IsSuffix(suffix, seq) ==
  /\ Len(suffix) <= Len(seq)
  /\ \A i \in DOMAIN suffix : seq[Len(seq) - Len(suffix) + i] = suffix[i]

(* C7 -- Integration Pass: before the registry is handed to the CSV sink,  *)
(* every promoted-value table is present in it, its rows after the rows    *)
(* the table already had and its columns among the table's columns.        *)
IntegrationPass ==
  pc = "done" =>
    \A T \in DOMAIN promotedValueTables :
      /\ T \in DOMAIN tables
      /\ IsSuffix(RowsOf(promotedValueTables[T].rows), tables[T].rows)
      /\ SeqToSet(promotedValueTables[T].columns) \subseteq tables[T].columns

---------------------------------------------------------------------------
NameChildren(node) ==
  SelectSeq(node.children, LAMBDA c : c.tag = "NAME")

(* C8 -- copyIndividualName: with the option on, the NAME column of an     *)
(* INDI node's row holds the raw value of its first NAME child.            *)
CopyIndividualName ==
  \A i \in Finished :
    (/\ version = V2
     /\ args.copy_individual_names
     /\ allRecords[i].tag = "INDI"
     /\ NameChildren(allRecords[i]) # <<>>) =>
       GetProp(RowOf(i), "NAME") = NameChildren(allRecords[i])[1].value

---------------------------------------------------------------------------
(* The end-to-end case: one family record and the two individual records  *)
(* it refers to, one of them through a CHIL cross-reference.               *)
IsSpouseRef(node) == node.tag \in {"HUSB", "WIFE"} /\ node.children = <<>>

IsChildRef(node) == node.tag = "CHIL" /\ node.children = <<>>

\* f is the family of a two-person family document
TwoPersonFamily(f) ==
  /\ Len(allRecords) = 3
  /\ allRecords[f].tag = "FAM"
  /\ Len(allRecords[f].children) = 2
  /\ \E s, c \in 1..2 :
       /\ s # c
       /\ IsSpouseRef(allRecords[f].children[s])
       /\ IsChildRef(allRecords[f].children[c])
       /\ allRecords[f].children[s].value # allRecords[f].children[c].value
       /\ { allRecords[i].pointer : i \in (1..3) \ {f} } =
            { allRecords[f].children[s].value, allRecords[f].children[c].value }
  /\ \A i \in (1..3) \ {f} : allRecords[i].tag = "INDI"

RowCount(table) == IF table \in DOMAIN tables THEN Len(tables[table].rows) ELSE 0

JunctionPairs(jt, S, T) ==
  IF jt \in DOMAIN tables
    THEN { <<GetProp(tables[jt].rows[i], S), GetProp(tables[jt].rows[i], T)>> :
             i \in DOMAIN tables[jt].rows }
    ELSE {}

\* C9 as stated -- End-to-end: a two-person family with one cross-reference
\* child yields one FAM row, two INDI rows and an FAM_INDI table holding
\* the two (family, individual) pairs, one per individual of the family.
EndToEndTwoPairs ==
  \A f \in DOMAIN allRecords :
    (pc = "done" /\ TwoPersonFamily(f)) =>
      /\ RowCount("FAM") = 1
      /\ RowCount("INDI") = 2
      /\ RowCount("FAM_INDI") = 2
      /\ JunctionPairs("FAM_INDI", "FAM", "INDI") =
           { <<allRecords[f].pointer, allRecords[i].pointer>> :
               i \in (1..3) \ {f} }

\* C9 amended -- End-to-end: such a family yields one FAM row, two INDI rows
\* and an FAM_INDI table holding exactly one pair, that of the CHIL
\* cross-reference; the spouse is a plain HUSB or WIFE column of the FAM row.
EndToEndChildPair ==
  \A f \in DOMAIN allRecords :
    (pc = "done" /\ TwoPersonFamily(f)) =>
      /\ RowCount("FAM") = 1
      /\ RowCount("INDI") = 2
      /\ RowCount("FAM_INDI") = 1
      /\ \A c \in 1..2 :
           LET node == allRecords[f].children[c]
           IN  /\ IsChildRef(node) =>
                    JunctionPairs("FAM_INDI", "FAM", "INDI") =
                      { <<allRecords[f].pointer, node.value>> }
               /\ IsSpouseRef(node) =>
                    GetProp(tables["FAM"].rows[1], node.tag) = node.value

\* C9 -- a finished run on a two-person family document
EndToEndWitness ==
  \E f \in DOMAIN allRecords : pc = "done" /\ TwoPersonFamily(f)

---------------------------------------------------------------------------
PromotedRecordTags ==
  { trace[k].child : k \in { x \in DOMAIN trace :
                               trace[x].rule = "promotedRecord" } }

(* C10 -- Promoted-record id uniqueness: for every tag X, the rows the     *)
(* promoted-record rule created in table X for pointer-less nodes have     *)
(* pairwise distinct ids, also when a promoted record of tag X contains    *)
(* another promoted record of tag X.                                       *)
PromotedRecordIdsDistinct ==
  (pc = "records" /\ childIdx = 0) =>
    \A X \in PromotedRecordTags :
      \A i, j \in DOMAIN tables[X].rows :
        i # j => tables[X].rows[i].id # tables[X].rows[j].id

=============================================================================
